---- MODULE Spec2Model ----
(***************************************************************************)
(* duplemove (handler.py): find duplicate files in a directory tree by     *)
(* size and MD5 digest, list them and delete the ones the user selects.    *)
(*                                                                         *)
(* A directory tree is the sequence of its files in os.walk order; a path  *)
(* is the position of the file in that sequence.  Strings are sequences of *)
(* one-character strings.  A Python dict is the sequence of its            *)
(* <<key, value>> items in insertion order.                                *)
(***************************************************************************)
EXTENDS Integers, Sequences, FiniteSets, TLC

\* Bounds of the model.
MaxFiles == 4
MaxTokens == 2

\* Small sets the inputs are drawn from.
Contents == {<<>>, <<"x">>, <<"y">>}
\* The kinds of file a tree is made of: three whose name ends with "a", of
\* sizes 0, 1 and 1, and one of size 1 whose name only starts with it.
Files ==
    {[name |-> <<"b", "a">>, content |-> c] : c \in Contents}
    \cup {[name |-> <<"a", "b">>, content |-> <<"x">>]}
Forms == {<<>>, <<"a">>}
SortInputs == {<<"1">>, <<"2">>, <<"3">>, <<>>}
YesNoInputs ==
    {<<"y">>, <<"y", "e", "s">>, <<"Y", "e", "s">>,
     <<"n">>, <<"n", "o">>, <<"N">>, <<"N", "O">>, <<"q">>, <<>>}

VARIABLES
    pc,             \* position of main()
    tree,           \* the files under the directory, in os.walk order
    exists,         \* paths currently on disk
    form,           \* main: form
    srt,            \* main: srt
    lst,            \* main: lst
    duplicates,     \* main: duplicates
    paths,          \* main: paths
    files_numbers,  \* main: files_numbers
    rep,            \* last line accepted by choice_sorting / ask_yes_no
    ret,            \* value returned by ask_yes_no
    toks,           \* ask_files_numbers: rep, the accepted line split
    printed,        \* lines written by print_files
    printedDup,     \* lines written by print_files_duplicates
    freed,          \* total written by delete_files, -1 before
    err,            \* the uncaught OSError that ended the run, or "none"
    failed          \* the path the failing call was given, 0 when none

vars == <<pc, tree, exists, form, srt, lst, duplicates, paths, files_numbers,
          rep, ret, toks, printed, printedDup, freed, err, failed>>

-----------------------------------------------------------------------------
\* Sequences and dicts.

Range(s) == {s[i] : i \in DOMAIN s}

RECURSIVE SeqsUpTo(_, _)
SeqsUpTo(S, n) ==
    IF n = 0 THEN {<<>>}
    ELSE LET shorter == SeqsUpTo(S, n - 1)
         IN  shorter \cup {Append(s, x) : s \in {t \in shorter : Len(t) = n - 1}, x \in S}

RECURSIVE Concat(_)
Concat(ss) == IF ss = <<>> THEN <<>> ELSE Head(ss) \o Concat(Tail(ss))

DictKeys(d) == [i \in DOMAIN d |-> d[i][1]]
DictValues(d) == [i \in DOMAIN d |-> d[i][2]]
HasKey(d, k) == \E i \in DOMAIN d : d[i][1] = k
DictGet(d, k) == d[CHOOSE i \in DOMAIN d : d[i][1] = k][2]
\* d[k] = v: an existing key keeps its place, a new key goes last.
DictSet(d, k, v) ==
    IF HasKey(d, k)
    THEN [i \in DOMAIN d |-> IF d[i][1] = k THEN <<k, v>> ELSE d[i]]
    ELSE Append(d, <<k, v>>)
\* for k in tuple(d.keys()): if len(d[k]) < 2: del d[k]
DelSingletons(d) ==
    LET Keep(e) == ~(Len(e[2]) < 2) IN SelectSeq(d, Keep)

\* str.startswith in place of str.endswith
StartsWith(s, suffix) ==
    /\ Len(suffix) <= Len(s)
    /\ SubSeq(s, 1, Len(suffix)) = suffix

\* str.endswith
EndsWith(s, suffix) ==
    /\ Len(suffix) <= Len(s)
    /\ SubSeq(s, Len(s) - Len(suffix) + 1, Len(s)) = suffix

\* str.lower on the letters the inputs use
LowerChar(c) ==
    CASE c = "Y" -> "y"
      [] c = "E" -> "e"
      [] c = "S" -> "s"
      [] c = "N" -> "n"
      [] c = "O" -> "o"
      [] OTHER -> c
Lower(s) == [i \in DOMAIN s |-> LowerChar(s[i])]

\* str(n) and int(s), decimal
DigitChar(d) ==
    CASE d = 0 -> "0" [] d = 1 -> "1" [] d = 2 -> "2" [] d = 3 -> "3"
      [] d = 4 -> "4" [] d = 5 -> "5" [] d = 6 -> "6" [] d = 7 -> "7"
      [] d = 8 -> "8" [] d = 9 -> "9"
DigitVal(c) == CHOOSE d \in 0..9 : DigitChar(d) = c
RECURSIVE str(_)
str(n) == IF n < 10 THEN <<DigitChar(n)>> ELSE Append(str(n \div 10), DigitChar(n % 10))
RECURSIVE int(_)
int(s) ==
    IF Len(s) = 1 THEN DigitVal(s[1])
    ELSE 10 * int(SubSeq(s, 1, Len(s) - 1)) + DigitVal(s[Len(s)])

\* sorted(keys, reverse=srt) for distinct integer keys
RECURSIVE SortAsc(_)
SortAsc(S) ==
    IF S = {} THEN <<>>
    ELSE LET m == CHOOSE x \in S : \A y \in S : x <= y
         IN  <<m>> \o SortAsc(S \ {m})
Reverse(s) == [i \in DOMAIN s |-> s[Len(s) + 1 - i]]
Sorted(keys, reverse) ==
    IF reverse THEN Reverse(SortAsc(Range(keys))) ELSE SortAsc(Range(keys))

-----------------------------------------------------------------------------
\* The file system.

Trees == SeqsUpTo(Files, MaxFiles)

\* os.stat(path).st_size
StSize(t, p) == Len(t[p].content)

\* hashlib.md5(content).hexdigest(): a non-empty string, taken to be
\* injective on the content.
Md5(content) == <<"m", "d", "5">> \o content

-----------------------------------------------------------------------------
\* get_files

RECURSIVE WalkFiles(_, _, _, _, _)
WalkFiles(t, ex, f, i, acc) ==
    IF i > Len(t) THEN acc
    ELSE IF i \in ex /\ EndsWith(t[i].name, f)
         THEN LET size == StSize(t, i)
                  old == IF HasKey(acc, size) THEN DictGet(acc, size) ELSE <<>>
              IN  WalkFiles(t, ex, f, i + 1, DictSet(acc, size, Append(old, i)))
         ELSE WalkFiles(t, ex, f, i + 1, acc)

get_files(t, ex, f) == DelSingletons(WalkFiles(t, ex, f, 1, <<>>))

\* the paths get_files calls os.stat on
Statted(t, ex, f) == {i \in DOMAIN t : i \in ex /\ EndsWith(t[i].name, f)}

-----------------------------------------------------------------------------
\* check_hashes, get_duplicates

RECURSIVE HashLoop(_, _, _, _)
HashLoop(files, t, i, hashes_dict) ==
    IF i > Len(files) THEN hashes_dict
    ELSE LET file == files[i]
             hash_file == Md5(t[file].content)
             got == IF HasKey(hashes_dict, hash_file)
                    THEN DictGet(hashes_dict, hash_file) ELSE <<>>
         IN  IF got = <<>>
             THEN HashLoop(files, t, i + 1, DictSet(hashes_dict, hash_file, <<file>>))
             ELSE HashLoop(files, t, i + 1,
                           DictSet(hashes_dict, hash_file, Append(got, file)))

\* check_hashes without the loop that deletes the groups of one path
check_hashes_keep_all(files, t) == HashLoop(files, t, 1, <<>>)

check_hashes(files, t) == DelSingletons(HashLoop(files, t, 1, <<>>))

RECURSIVE DupLoop(_, _, _, _, _)
DupLoop(srt_sizes, l, t, i, dups) ==
    IF i > Len(srt_sizes) THEN dups
    ELSE LET size == srt_sizes[i]
             hashes_dict == check_hashes(DictGet(l, size), t)
         IN  IF hashes_dict # <<>>
             THEN DupLoop(srt_sizes, l, t, i + 1, DictSet(dups, size, hashes_dict))
             ELSE DupLoop(srt_sizes, l, t, i + 1, dups)

get_duplicates(l, s, t) == DupLoop(Sorted(DictKeys(l), s), l, t, 1, <<>>)

\* the paths get_duplicates opens
Hashed(l) == Range(Concat(DictValues(l)))

-----------------------------------------------------------------------------
\* print_files, print_files_duplicates.  A line is <<"blank">>,
\* <<"bytes", size>>, <<"file", path>>, <<"hash", digest>> or
\* <<"num", decimal count, path>>.

RECURSIVE PrintSizeLoop(_, _, _)
PrintSizeLoop(srt_keys, l, i) ==
    IF i > Len(srt_keys) THEN <<>>
    ELSE LET fs == DictGet(l, srt_keys[i])
         IN  <<<<"blank">>, <<"bytes", srt_keys[i]>>>>
             \o [j \in DOMAIN fs |-> <<"file", fs[j]>>]
             \o PrintSizeLoop(srt_keys, l, i + 1)

print_files(l, s) == PrintSizeLoop(Sorted(DictKeys(l), s), l, 1)

RECURSIVE PrintDupPaths(_, _, _)
PrintDupPaths(dup, i, st) ==
    IF i > Len(dup) THEN st
    ELSE PrintDupPaths(dup, i + 1,
            [out |-> Append(st.out, <<"num", str(st.count), dup[i]>>),
             count |-> st.count + 1])

RECURSIVE PrintDupHashes(_, _, _)
PrintDupHashes(hashes_dict, j, st) ==
    IF j > Len(hashes_dict) THEN st
    ELSE PrintDupHashes(hashes_dict, j + 1,
            PrintDupPaths(hashes_dict[j][2], 1,
                [st EXCEPT !.out = Append(@, <<"hash", hashes_dict[j][1]>>)]))

RECURSIVE PrintDupSizes(_, _, _)
PrintDupSizes(d, k, st) ==
    IF k > Len(d) THEN st
    ELSE IF d[k][2] # <<>>
         THEN PrintDupSizes(d, k + 1,
                 PrintDupHashes(d[k][2], 1,
                     [st EXCEPT !.out = @ \o <<<<"blank">>, <<"bytes", d[k][1]>>>>]))
         ELSE PrintDupSizes(d, k + 1, st)

print_files_duplicates(d) == PrintDupSizes(d, 1, [out |-> <<>>, count |-> 1]).out

-----------------------------------------------------------------------------
\* get_duplicates_paths: the table {count: (path, size)}

RECURSIVE TablePaths(_, _, _, _)
TablePaths(p, size, i, st) ==
    IF i > Len(p) THEN st
    ELSE TablePaths(p, size, i + 1,
            [paths |-> DictSet(st.paths, st.count, <<p[i], size>>),
             count |-> st.count + 1])

RECURSIVE TableHashes(_, _, _, _)
TableHashes(d, size, j, st) ==
    IF j > Len(d) THEN st
    ELSE TableHashes(d, size, j + 1, TablePaths(d[j][2], size, 1, st))

RECURSIVE TableSizes(_, _, _)
TableSizes(dups, k, st) ==
    IF k > Len(dups) THEN st
    ELSE TableSizes(dups, k + 1, TableHashes(dups[k][2], dups[k][1], 1, st))

\* the table numbered from 1, as the function's docstring has it
get_duplicates_paths_from_1(dups) ==
    TableSizes(dups, 1, [paths |-> <<>>, count |-> 1]).paths

get_duplicates_paths(dups) == TableSizes(dups, 1, [paths |-> <<>>, count |-> 0]).paths

-----------------------------------------------------------------------------
\* choice_sorting, ask_yes_no, ask_files_numbers: what one input line does

SortAccepted(r) == r \in {<<"1">>, <<"2">>}
\* choice_sorting as its docstring has it: False if 1, True if 2
choice_sorting_docstring(r) == IF r = <<"1">> THEN FALSE ELSE TRUE

choice_sorting(r) == IF r = <<"2">> THEN FALSE ELSE TRUE

YesNoAccepted(r) == Lower(r) \in {<<"y">>, <<"y", "e", "s">>, <<"n">>, <<"n", "o">>}
ask_yes_no(r) == IF r \in {<<"n">>, <<"n", "o">>} THEN 0 ELSE 1

Numbers(count) == [i \in 1..count |-> str((i - 1) + 1)]
NumbersAccepted(count, r) ==
    /\ r # <<>>
    /\ \A i \in DOMAIN r : r[i] \in Range(Numbers(count))
\* ask_files_numbers without the shift to 0-based indexes
ask_files_numbers_1_based(r) == {int(x) : x \in Range(r)}

ask_files_numbers(r) == {int(x) - 1 : x \in Range(r)}

Tokens == {str(n) : n \in 0..(MaxFiles + 1)} \cup {<<"0", "1">>}
NumberInputs == SeqsUpTo(Tokens, MaxTokens)

-----------------------------------------------------------------------------
\* delete_files: `bad` are the paths os.remove fails on

RECURSIVE DeleteLoop(_, _, _, _, _)
DeleteLoop(pt, numbers, bad, i, st) ==
    IF i > Len(pt) THEN st
    ELSE IF pt[i][1] \in numbers
         THEN LET path == pt[i][2][1]
              IN  IF path \in bad \/ path \notin st.exists
                  THEN [st EXCEPT !.ok = FALSE, !.failed = path]
                  ELSE DeleteLoop(pt, numbers, bad, i + 1,
                          [st EXCEPT !.exists = @ \ {path}, !.mem = @ + pt[i][2][2]])
         ELSE DeleteLoop(pt, numbers, bad, i + 1, st)

\* delete_files adding the size of every entry of the table to the total
RECURSIVE DeleteLoopCountAll(_, _, _, _, _)
DeleteLoopCountAll(pt, numbers, bad, i, st) ==
    IF i > Len(pt) THEN st
    ELSE IF pt[i][1] \in numbers
         THEN LET path == pt[i][2][1]
              IN  IF path \in bad \/ path \notin st.exists
                  THEN [st EXCEPT !.ok = FALSE, !.failed = path]
                  ELSE DeleteLoopCountAll(pt, numbers, bad, i + 1,
                          [st EXCEPT !.exists = @ \ {path}, !.mem = @ + pt[i][2][2]])
         ELSE DeleteLoopCountAll(pt, numbers, bad, i + 1,
                 [st EXCEPT !.mem = @ + pt[i][2][2]])

delete_files_count_all(pt, numbers, ex, bad) ==
    DeleteLoopCountAll(pt, numbers, bad, 1,
        [exists |-> ex, mem |-> 0, ok |-> TRUE, failed |-> 0])

delete_files(pt, numbers, ex, bad) ==
    DeleteLoop(pt, numbers, bad, 1, [exists |-> ex, mem |-> 0, ok |-> TRUE, failed |-> 0])

\* the paths delete_files is asked to remove
Selected(pt, numbers) == {pt[i][2][1] : i \in {j \in DOMAIN pt : pt[j][1] \in numbers}}

-----------------------------------------------------------------------------
\* main

Init ==
    /\ pc = "get_path"
    /\ tree \in Trees
    /\ exists = DOMAIN tree
    /\ form = <<>>
    /\ srt = FALSE
    /\ lst = <<>>
    /\ duplicates = <<>>
    /\ paths = <<>>
    /\ files_numbers = {}
    /\ rep = <<>>
    /\ ret = -1
    /\ toks = <<>>
    /\ printed = <<>>
    /\ printedDup = <<>>
    /\ freed = -1
    /\ err = "none"
    /\ failed = 0

\* an OSError nobody catches ends the run
Crash(kind, p) ==
    /\ pc' = "crashed"
    /\ err' = kind
    /\ failed' = p

GetPath ==
    /\ pc = "get_path"
    /\ \E given \in BOOLEAN : pc' = IF given THEN "ask_format" ELSE "done"
    /\ UNCHANGED <<tree, exists, form, srt, lst, duplicates, paths, files_numbers,
                   rep, ret, toks, printed, printedDup, freed, err, failed>>

AskFormat ==
    /\ pc = "ask_format"
    /\ \E f \in Forms : form' = f
    /\ pc' = "choice_sorting"
    /\ UNCHANGED <<tree, exists, srt, lst, duplicates, paths, files_numbers,
                   rep, ret, toks, printed, printedDup, freed, err, failed>>

ChoiceSorting ==
    /\ pc = "choice_sorting"
    /\ \E r \in SortInputs :
          IF SortAccepted(r)
          THEN /\ rep' = r
               /\ srt' = choice_sorting(r)
               /\ pc' = "get_files"
          ELSE UNCHANGED <<rep, srt, pc>>
    /\ UNCHANGED <<tree, exists, form, lst, duplicates, paths, files_numbers,
                   ret, toks, printed, printedDup, freed, err, failed>>

GetFiles ==
    /\ pc = "get_files"
    /\ \/ /\ lst' = get_files(tree, exists, form)
          /\ pc' = "print_files"
          /\ UNCHANGED <<err, failed>>
       \/ /\ \E p \in Statted(tree, exists, form) : Crash("stat", p)
          /\ UNCHANGED lst
    /\ UNCHANGED <<tree, exists, form, srt, duplicates, paths, files_numbers,
                   rep, ret, toks, printed, printedDup, freed>>

PrintFiles ==
    /\ pc = "print_files"
    /\ printed' = print_files(lst, srt)
    /\ pc' = "ask_duplicates"
    /\ UNCHANGED <<tree, exists, form, srt, lst, duplicates, paths, files_numbers,
                   rep, ret, toks, printedDup, freed, err, failed>>

\* ask_yes_no(question), leaving main at the `if` that tests its result
AskYesNo(at, to) ==
    /\ pc = at
    /\ \E r \in YesNoInputs :
          IF YesNoAccepted(r)
          THEN /\ rep' = r
               /\ ret' = ask_yes_no(r)
               /\ pc' = to
          ELSE UNCHANGED <<rep, ret, pc>>
    /\ UNCHANGED <<tree, exists, form, srt, lst, duplicates, paths, files_numbers,
                   toks, printed, printedDup, freed, err, failed>>

AskDuplicates == AskYesNo("ask_duplicates", "if_duplicates")

AskDelete == AskYesNo("ask_delete", "if_delete")

\* `if ask_yes_no(...)` is false: main returns
Declined ==
    /\ pc \in {"if_duplicates", "if_delete"}
    /\ ret = 0
    /\ pc' = "done"
    /\ rep' = <<>>
    /\ ret' = -1
    /\ UNCHANGED <<tree, exists, form, srt, lst, duplicates, paths, files_numbers,
                   toks, printed, printedDup, freed, err, failed>>

GetDuplicates ==
    /\ pc = "if_duplicates"
    /\ ret # 0
    /\ rep' = <<>>
    /\ ret' = -1
    /\ \/ /\ duplicates' = get_duplicates(lst, srt, tree)
          /\ pc' = "print_duplicates"
          /\ UNCHANGED <<err, failed>>
       \/ /\ \E p \in Hashed(lst) : Crash("read", p)
          /\ UNCHANGED duplicates
    /\ UNCHANGED <<tree, exists, form, srt, lst, paths, files_numbers,
                   toks, printed, printedDup, freed>>

PrintDuplicates ==
    /\ pc = "print_duplicates"
    /\ printedDup' = print_files_duplicates(duplicates)
    /\ pc' = "ask_delete"
    /\ UNCHANGED <<tree, exists, form, srt, lst, duplicates, paths, files_numbers,
                   rep, ret, toks, printed, freed, err, failed>>

GetDuplicatesPaths ==
    /\ pc = "if_delete"
    /\ ret # 0
    /\ rep' = <<>>
    /\ ret' = -1
    /\ paths' = get_duplicates_paths(duplicates)
    /\ pc' = "ask_files_numbers"
    /\ UNCHANGED <<tree, exists, form, srt, lst, duplicates, files_numbers,
                   toks, printed, printedDup, freed, err, failed>>

AskFilesNumbers ==
    /\ pc = "ask_files_numbers"
    /\ \E r \in NumberInputs :
          IF NumbersAccepted(Len(DictKeys(paths)), r)
          THEN /\ toks' = r
               /\ files_numbers' = ask_files_numbers(r)
               /\ pc' = "delete_files"
          ELSE UNCHANGED <<toks, files_numbers, pc>>
    /\ UNCHANGED <<tree, exists, form, srt, lst, duplicates, paths,
                   rep, ret, printed, printedDup, freed, err, failed>>

DeleteFiles ==
    /\ pc = "delete_files"
    /\ \E bad \in {{}} \cup {{p} : p \in Selected(paths, files_numbers)} :
          LET r == delete_files(paths, files_numbers, exists, bad)
          IN  /\ exists' = r.exists
              /\ IF r.ok
                 THEN /\ freed' = r.mem
                      /\ pc' = "done"
                      /\ UNCHANGED <<err, failed>>
                 ELSE /\ Crash("remove", r.failed)
                      /\ UNCHANGED freed
    /\ UNCHANGED <<tree, form, srt, lst, duplicates, paths, files_numbers,
                   rep, ret, toks, printed, printedDup>>

Next ==
    \/ GetPath
    \/ AskFormat
    \/ ChoiceSorting
    \/ GetFiles
    \/ PrintFiles
    \/ AskDuplicates
    \/ GetDuplicates
    \/ PrintDuplicates
    \/ AskDelete
    \/ Declined
    \/ GetDuplicatesPaths
    \/ AskFilesNumbers
    \/ DeleteFiles

Spec == Init /\ [][Next]_vars

-----------------------------------------------------------------------------
\* delete_files called on the table of a tree with any tuple of numbers

InitDelete ==
    /\ pc = "delete_files"
    /\ tree \in Trees
    /\ exists = DOMAIN tree
    /\ form \in Forms
    /\ srt \in BOOLEAN
    /\ lst = get_files(tree, exists, form)
    /\ duplicates = get_duplicates(lst, srt, tree)
    /\ paths = get_duplicates_paths(duplicates)
    /\ files_numbers \in SUBSET (0..MaxFiles)
    /\ rep = <<>>
    /\ ret = -1
    /\ toks = <<>>
    /\ printed = print_files(lst, srt)
    /\ printedDup = print_files_duplicates(duplicates)
    /\ freed = -1
    /\ err = "none"
    /\ failed = 0

SpecDelete == InitDelete /\ [][DeleteFiles]_vars

-----------------------------------------------------------------------------
\* Where main is: lst, duplicates and paths hold the result of get_files,
\* get_duplicates and get_duplicates_paths at these positions.

Scanned ==
    pc \in {"print_files", "ask_duplicates", "if_duplicates", "print_duplicates",
            "ask_delete", "if_delete", "ask_files_numbers", "delete_files"}
Detected ==
    pc \in {"print_duplicates", "ask_delete", "if_delete", "ask_files_numbers",
            "delete_files"}
Tabled == pc \in {"ask_files_numbers", "delete_files"}
\* ask_files_numbers has returned
Asked == toks # <<>>

\* suffix is a suffix of s: s is some prefix of s followed by suffix
IsSuffix(s, suffix) == \E k \in 0..Len(s) : s = SubSeq(s, 1, k) \o suffix
Candidates == {p \in DOMAIN tree : IsSuffix(tree[p].name, form)}
SameContent(p, q) == tree[p].content = tree[q].content
\* the places <<item, position>> of path p in a dict of lists of paths
Places(d, p) ==
    UNION {{<<i, j>> : j \in {k \in DOMAIN d[i][2] : d[i][2][k] = p}} : i \in DOMAIN d}
NonIncreasing(sq) == \A i, j \in DOMAIN sq : i < j => sq[i] >= sq[j]
NonDecreasing(sq) == \A i, j \in DOMAIN sq : i < j => sq[i] <= sq[j]
IsBytes(ln) == ln[1] = "bytes"
IsNum(ln) == ln[1] = "num"
PrintedSizes(lines) ==
    LET b == SelectSeq(lines, IsBytes) IN [i \in DOMAIN b |-> b[i][2]]
NumLines == SelectSeq(printedDup, IsNum)
RECURSIVE SumSeq(_)
SumSeq(sq) == IF sq = <<>> THEN 0 ELSE Head(sq) + SumSeq(Tail(sq))
\* the sizes of the files S, summed
RECURSIVE SumSizes(_)
SumSizes(S) ==
    IF S = {} THEN 0
    ELSE LET p == CHOOSE q \in S : TRUE
         IN  Len(tree[p].content) + SumSizes(S \ {p})

\* C1: after get_duplicates, within every size bucket of lst the digest
\* groups kept for that size hold only paths of the bucket, each at most
\* once, every group has at least 2 paths, two paths of the bucket share a
\* group iff their contents are equal, and a path whose content no other
\* path of the bucket has is in no group (buckets of empty files included).
C1_DigestGroups ==
    Detected =>
        /\ \A k \in DOMAIN duplicates :
              HasKey(lst, duplicates[k][1]) /\ duplicates[k][2] # <<>>
        /\ \A b \in DOMAIN lst :
              LET files == Range(lst[b][2])
                  groups == IF HasKey(duplicates, lst[b][1])
                            THEN DictGet(duplicates, lst[b][1]) ELSE <<>>
                  In(p, g) == p \in Range(groups[g][2])
              IN  /\ \A g \in DOMAIN groups :
                        /\ Len(groups[g][2]) >= 2
                        /\ Range(groups[g][2]) \subseteq files
                  /\ \A p \in files : Cardinality(Places(groups, p)) <= 1
                  /\ \A p, q \in files :
                        p # q =>
                          ((\E g \in DOMAIN groups : In(p, g) /\ In(q, g))
                             <=> SameContent(p, q))
                  /\ \A p \in files :
                        (\A q \in files \ {p} : ~SameContent(p, q))
                          => Places(groups, p) = {}

\* C1 witness: a bucket with a digest group and a path left out of every group
C1_Witness ==
    /\ Detected
    /\ \E b \in DOMAIN lst :
          /\ HasKey(duplicates, lst[b][1])
          /\ \E p \in Range(lst[b][2]) :
                Places(DictGet(duplicates, lst[b][1]), p) = {}

\* C2: after get_files, no bucket of lst has fewer than 2 paths, no size is
\* listed twice, and a file is in lst iff its name ends with the filter and
\* another file whose name ends with the filter has its size; it is then
\* listed once, under its own size.
C2_SizeBuckets ==
    Scanned =>
        /\ \A i \in DOMAIN lst : Len(lst[i][2]) >= 2
        /\ \A i, j \in DOMAIN lst : lst[i][1] = lst[j][1] => i = j
        /\ \A p \in DOMAIN tree :
              IF /\ p \in Candidates
                 /\ \E q \in Candidates \ {p} :
                       Len(tree[q].content) = Len(tree[p].content)
              THEN /\ Cardinality(Places(lst, p)) = 1
                   /\ \A a \in Places(lst, p) : lst[a[1]][1] = Len(tree[p].content)
              ELSE Places(lst, p) = {}

\* C2 witness: under the filter "a", a bucket was kept, a matching file of a
\* unique size was dropped and a file of a kept size does not match
C2_Witness ==
    /\ Scanned
    /\ form = <<"a">>
    /\ lst # <<>>
    /\ \E p \in Candidates : Places(lst, p) = {}
    /\ \E p \in DOMAIN tree \ Candidates : HasKey(lst, Len(tree[p].content))

C4_Deletion ==
    (pc = "done" /\ freed # -1) =>
        LET hit == {i \in DOMAIN paths : paths[i][1] \in files_numbers}
            Recorded(i) == paths[i][2][2]
        IN  /\ exists = DOMAIN tree \ {paths[i][2][1] : i \in hit}
            /\ freed = SumSeq([i \in DOMAIN paths |->
                                 IF i \in hit THEN Recorded(i) ELSE 0])
            /\ \A i \in hit : Recorded(i) = Len(tree[paths[i][2][1]].content)

\* C4 witness: delete_files returned after removing a file, with a selected
\* number outside the table and a duplicate that was not selected
C4_Witness ==
    /\ pc = "done"
    /\ freed > 0
    /\ \E n \in files_numbers : ~HasKey(paths, n)
    /\ \E i \in DOMAIN paths : paths[i][1] \notin files_numbers

C6_SortDirection ==
    /\ pc \in {"get_files", "print_files", "ask_duplicates"} =>
          /\ rep \in {<<"1">>, <<"2">>}
          /\ srt <=> (rep = <<"1">>)
    /\ pc = "ask_duplicates" =>
          /\ rep = <<"1">> => NonIncreasing(PrintedSizes(printed))
          /\ rep = <<"2">> => NonDecreasing(PrintedSizes(printed))
    /\ (Scanned /\ pc # "print_files") =>
          IF srt THEN NonIncreasing(PrintedSizes(printed))
          ELSE NonDecreasing(PrintedSizes(printed))
    /\ Detected =>
          LET sizes == [i \in DOMAIN paths |-> paths[i][2][2]]
          IN  IF srt
              THEN /\ NonIncreasing(DictKeys(duplicates))
                   /\ NonIncreasing(PrintedSizes(printedDup))
                   /\ NonIncreasing(sizes)
              ELSE /\ NonDecreasing(DictKeys(duplicates))
                   /\ NonDecreasing(PrintedSizes(printedDup))
                   /\ NonDecreasing(sizes)

\* C6 witness: descending order chosen, duplicates of two sizes in the table
C6_Witness ==
    /\ pc = "ask_files_numbers"
    /\ srt
    /\ Len(duplicates) >= 2
    /\ paths[1][2][2] > paths[Len(paths)][2][2]

\* C7: when a removal fails, every other selected file of the table is
\* removed all the same and the total of the files removed is written.
C7_DeleteContinues ==
    err = "remove" =>
        LET gone == DOMAIN tree \ exists
        IN  /\ gone = Selected(paths, files_numbers) \ {failed}
            /\ freed = SumSizes(gone)

\* C8: a failing os.stat or a failing read does not end the run: lst and
\* duplicates are what they are for the tree without the failing file.
C8_ScanContinues ==
    /\ pc = "crashed" => err \notin {"stat", "read"}
    /\ err = "stat" => lst = get_files(tree, exists \ {failed}, form)
    /\ err = "read" =>
          duplicates
            = get_duplicates(get_files(tree, exists \ {failed}, form), srt, tree)

\* C9: ask_yes_no returns 0 for n and no and 1 for y and yes, in any letter
\* case, so main goes past either question only after y or yes.
C9_YesNo ==
    pc \in {"if_duplicates", "if_delete"} =>
        /\ Lower(rep) \in {<<"n">>, <<"n", "o">>} => ret = 0
        /\ Lower(rep) \in {<<"y">>, <<"y", "e", "s">>} => ret = 1

\* C10: at every prompt main reaches there is a line the prompt accepts.
C10_PromptsAccept ==
    /\ pc = "choice_sorting" => \E r \in SortInputs : SortAccepted(r)
    /\ pc \in {"ask_duplicates", "ask_delete"} =>
          \E r \in YesNoInputs : YesNoAccepted(r)
    /\ pc = "ask_files_numbers" =>
          \E r \in NumberInputs : NumbersAccepted(Len(DictKeys(paths)), r)

====
